---- MODULE Spec2Model ----
(***************************************************************************)
(* A model of atudomain.git.Git (src/atudomain/git/Git.py): construction   *)
(* of a Git object (binary discovery, directory normalisation, repository  *)
(* probe) and its three public operations run, get_commits and             *)
(* get_branches, called from several threads.                              *)
(*                                                                         *)
(* A Python str is a sequence of one-character strings, so that rstrip,    *)
(* strip, format, join, re.split and re.search are computed character by   *)
(* character.  None is the empty sequence <<>> and a present value v is    *)
(* the one-element sequence <<v>>.                                         *)
(***************************************************************************)
EXTENDS Integers, Sequences, FiniteSets, TLC

VARIABLES
    files,                \* environment: the paths that are regular files
    which_git,            \* environment: shutil.which('git') finds a binary
    arg_directory,        \* constructor argument directory
    arg_binary_path,      \* constructor argument binary_path
    COMMON_BINARY_PATHS,  \* the class-level list object
    self,                 \* the instance attributes
    ctor,                 \* position of __init__
    raised,               \* the exception __init__ ended with, or None
    ctor_proc,            \* the probe process in flight, or None
    probes,               \* how many probe processes were started
    probe_returncode,     \* the probe's exit code, or None
    printed,              \* what was written to standard output
    pc,                   \* per thread: idle, running (process in flight), returned
    call,                 \* per thread: the operation called and its arguments
    proc,                 \* per thread: the process in flight, or None
    completed,            \* per thread: the finished process of the call, or None
    parsed,               \* per thread: what the parser returned, or None
    steps,                \* per thread: what the call did so far, in order
    ret                   \* per thread: what the call returned or raised

vars == <<files, which_git, arg_directory, arg_binary_path, COMMON_BINARY_PATHS,
          self, ctor, raised, ctor_proc, probes, probe_returncode, printed,
          pc, call, proc, completed, parsed, steps, ret>>

env_vars == <<files, which_git, arg_directory, arg_binary_path>>
ctor_vars == <<ctor, raised, ctor_proc, probes, probe_returncode>>
thread_vars == <<pc, call, proc, completed, parsed, steps, ret>>

----------------------------------------------------------------------------
(* Bounds of the model *)

NumThreads == 2
MaxDirLen == 3
MaxRangeLen == 3
MaxLines == 3

Threads == 1..NumThreads

----------------------------------------------------------------------------
(* Values *)

None == <<>>
Some(v) == <<v>>
Get(o) == o[1]

Return(v) == [kind |-> "return", value |-> v]
Raise(type, arg) == [kind |-> "raise", type |-> type, arg |-> arg]

GIT == <<"g", "i", "t">>
DASH_C == <<"-", "C">>
SLASH == <<"/">>
BIN == <<"/", "b", "i", "n">>
USR_BIN == <<"/", "u", "s", "r", "/", "b", "i", "n">>
OPT == <<"/", "o", "p", "t">>
NODIR == <<"/", "n", "o">>
REV_PARSE == <<"r", "e", "v", "-", "p", "a", "r", "s", "e">>
GIT_DIR == <<"-", "-", "g", "i", "t", "-", "d", "i", "r">>
LOG == <<"l", "o", "g">>
PRETTY_RAW == <<"-", "-", "p", "r", "e", "t", "t", "y", "=", "r", "a", "w">>
BRANCH == <<"b", "r", "a", "n", "c", "h">>
ALL == <<"-", "-", "a", "l", "l">>
PUSH == <<"p", "u", "s", "h">>
DASH_V == <<"-", "v">>

WARNING == "WARNING: git binary depends on current environment variables!"

(* The characters \s matches and str.strip removes, among those of the model *)
Whitespace == {" ", "\t"}

(* The directories of the file system: os.path.isdir *)
ExistingDirs == {SLASH, BIN, USR_BIN, OPT}

----------------------------------------------------------------------------
(* str and re operations *)

RECURSIVE rstrip(_, _)
rstrip(s, c) ==
    IF s # <<>> /\ s[Len(s)] = c THEN rstrip(SubSeq(s, 1, Len(s) - 1), c) ELSE s

RECURSIVE lstrip_ws(_)
lstrip_ws(s) ==
    IF s # <<>> /\ Head(s) \in Whitespace THEN lstrip_ws(Tail(s)) ELSE s

RECURSIVE rstrip_ws(_)
rstrip_ws(s) ==
    IF s # <<>> /\ s[Len(s)] \in Whitespace
    THEN rstrip_ws(SubSeq(s, 1, Len(s) - 1)) ELSE s

strip(s) == rstrip_ws(lstrip_ws(s))

(* re.split(r'\s+', s): cut at every maximal run of whitespace; a run at    *)
(* either end leaves an empty string there, and '' gives [''].              *)
RECURSIVE re_split_from(_, _)
re_split_from(s, cur) ==
    IF s = <<>> THEN <<cur>>
    ELSE IF Head(s) \in Whitespace
         THEN <<cur>> \o re_split_from(lstrip_ws(Tail(s)), <<>>)
         ELSE re_split_from(Tail(s), Append(cur, Head(s)))

(* Faulty variant: cutting at every single whitespace character, as         *)
(* str.split(' ') would, which leaves empty tokens between adjacent ones.   *)
RECURSIVE re_split_single_from(_, _)
re_split_single_from(s, cur) ==
    IF s = <<>> THEN <<cur>>
    ELSE IF Head(s) \in Whitespace
         THEN <<cur>> \o re_split_single_from(Tail(s), <<>>)
         ELSE re_split_single_from(Tail(s), Append(cur, Head(s)))

re_split_single(s) == re_split_single_from(s, <<>>)

re_split(s) == re_split_from(s, <<>>)

(* sep.join(list) *)
RECURSIVE join(_, _)
join(sep, list) ==
    IF list = <<>> THEN <<>>
    ELSE IF Len(list) = 1 THEN list[1]
         ELSE list[1] \o sep \o join(sep, Tail(list))

(* s.split(sep) for a one-character sep *)
RECURSIVE split_from(_, _, _)
split_from(s, c, cur) ==
    IF s = <<>> THEN <<cur>>
    ELSE IF Head(s) = c THEN <<cur>> \o split_from(Tail(s), c, <<>>)
         ELSE split_from(Tail(s), c, Append(cur, Head(s)))

split(s, c) == split_from(s, c, <<>>)

----------------------------------------------------------------------------
(* The environment *)

isdir(path) == path \in ExistingDirs
isfile(path) == path \in files

(* What subprocess does with env={'PATH': path}: the program is looked up  *)
(* in the directories of that PATH and nowhere else (a file named git is   *)
(* taken to be executable); when it is not found, FileNotFoundError.       *)
executable_found(path) ==
    \E i \in 1..Len(split(path, ":")) :
        LET d == split(path, ":")[i]
        IN d # <<>> /\ isfile(rstrip(d, "/") \o <<"/">> \o GIT)

Stderr(returncode) == IF returncode = 0 THEN "" ELSE "fatal"

----------------------------------------------------------------------------
(* Git.run *)

(* The token list given to subprocess.run *)
run_argv(directory, command) ==
    <<GIT, DASH_C, directory>> \o re_split(strip(command))

(* The PATH given to subprocess.run *)
run_env(binary_path_list) == join(<<":">>, binary_path_list)

(* Faulty variant: run that never raises, whatever check says *)
run_result_unchecked(check, argv, returncode, stdout) ==
    Return([args |-> argv, returncode |-> returncode,
            stdout |-> stdout, stderr |-> Stderr(returncode)])

(* How run ends once the process has exited *)
run_result(check, argv, returncode, stdout) ==
    IF check /\ returncode # 0
    THEN Raise("CalledProcessError", Stderr(returncode))
    ELSE Return([args |-> argv, returncode |-> returncode,
                 stdout |-> stdout, stderr |-> Stderr(returncode)])

(* What run writes to standard output *)
run_printed(check, returncode) ==
    IF check /\ returncode # 0 THEN {Stderr(returncode)} ELSE {}

(* The list object self._binary_path_list refers to *)
Deref(ref) == COMMON_BINARY_PATHS

----------------------------------------------------------------------------
(* Git.__init__ *)

(* _build_directory's normalisation of its argument *)
normalise_directory(directory) ==
    IF directory # SLASH THEN rstrip(directory, "/") ELSE directory

(* Faulty variant: the probe run with run's default check=True *)
probe_check_default == TRUE

(* The check argument of the probe *)
probe_check == FALSE

probe_command == REV_PARSE \o <<" ">> \o GIT_DIR

(* __init__ up to the return of _build_binary_path_list *)
build_binary_path_list ==
    /\ ctor = "call"
    /\ LET binary_path == arg_binary_path
           field == None    \* self._binary_path_list = None
           binary_path_list == COMMON_BINARY_PATHS
           binary_shell_independent ==
               \E i \in 1..Len(binary_path_list) :
                   isfile(rstrip(binary_path_list[i], "/") \o <<"/">> \o GIT)
       IN
       IF binary_path # <<>> /\ ~isdir(binary_path)
       THEN /\ ctor' = "raised"
            /\ raised' = Some(Raise("NotADirectoryError", binary_path))
            /\ UNCHANGED <<COMMON_BINARY_PATHS, self, printed>>
       ELSE IF binary_path # <<>> /\ field = None
       THEN \* self._binary_path_list.insert on None
            /\ ctor' = "raised"
            /\ raised' = Some(Raise("AttributeError", <<>>))
            /\ UNCHANGED <<COMMON_BINARY_PATHS, self, printed>>
       ELSE IF ~binary_shell_independent /\ ~which_git
       THEN /\ ctor' = "raised"
            /\ raised' = Some(Raise("GitBinaryNotFoundError", <<>>))
            /\ UNCHANGED <<COMMON_BINARY_PATHS, self, printed>>
       ELSE /\ ctor' = "binary_path_list_built"
            /\ raised' = None
            /\ printed' = IF binary_shell_independent
                          THEN printed ELSE printed \cup {WARNING}
            /\ self' = [self EXCEPT !.binary_path_list = Some("COMMON_BINARY_PATHS")]
            /\ UNCHANGED COMMON_BINARY_PATHS
    /\ UNCHANGED <<env_vars, ctor_proc, probes, probe_returncode, thread_vars>>

(* _build_directory up to the start of the probe process *)
build_directory ==
    /\ ctor = "binary_path_list_built"
    /\ LET directory == normalise_directory(arg_directory)
           path == run_env(Deref(Get(self.binary_path_list)))
       IN
       /\ self' = [self EXCEPT !.directory = Some(directory)]
       /\ IF executable_found(path)
          THEN /\ ctor' = "probing"
               /\ ctor_proc' = Some([argv |-> run_argv(directory, probe_command),
                                     path |-> path, check |-> probe_check])
               /\ probes' = probes + 1
               /\ UNCHANGED raised
          ELSE /\ ctor' = "raised"
               /\ raised' = Some(Raise("FileNotFoundError", GIT))
               /\ UNCHANGED <<ctor_proc, probes>>
    /\ UNCHANGED <<env_vars, COMMON_BINARY_PATHS, probe_returncode, printed,
                   thread_vars>>

(* The probe exits; _build_directory and __init__ finish *)
probe_exit(returncode) ==
    /\ ctor = "probing"
    /\ LET p == Get(ctor_proc)
           result == run_result(p.check, p.argv, returncode, "")
       IN
       /\ printed' = printed \cup run_printed(p.check, returncode)
       /\ IF result.kind = "raise"
          THEN /\ ctor' = "raised"
               /\ raised' = Some(result)
               /\ UNCHANGED self
          ELSE IF result.value.returncode # 0
          THEN /\ ctor' = "raised"
               /\ raised' = Some(Raise("NotARepositoryError", Get(self.directory)))
               /\ UNCHANGED self
          ELSE /\ ctor' = "constructed"
               /\ raised' = None
               /\ self' = [self EXCEPT !.git_log_parser = Some("GitLogParser"),
                                       !.git_branch_parser = Some("GitBranchParser")]
    /\ ctor_proc' = None
    /\ probe_returncode' = Some(returncode)
    /\ UNCHANGED <<env_vars, COMMON_BINARY_PATHS, probes, thread_vars>>

----------------------------------------------------------------------------
(* The parsers (atudomain.git.parsers) *)

(* The output of 'git log --pretty=raw' is a sequence of commit blocks, each *)
(* well formed ("ok") or not; a malformed block aborts the whole parse.      *)
extract_commits(text) ==
    IF \E i \in 1..Len(text) : text[i] # "ok"
    THEN Raise("MalformedLogRecord", <<>>)
    ELSE Return([i \in 1..Len(text) |-> [hash |-> i]])

contains_arrow(line) ==
    \E i \in 1..(Len(line) - 1) : line[i] = "-" /\ line[i + 1] = ">"

branch_name(line) ==
    LET s == strip(line)
    IN IF s # <<>> /\ Head(s) = "*" THEN strip(Tail(s)) ELSE s

(* The output of 'git branch --all' is a sequence of lines *)
RECURSIVE extract_branches(_)
extract_branches(lines) ==
    IF lines = <<>> THEN <<>>
    ELSE LET line == Head(lines)
             rest == extract_branches(Tail(lines))
         IN IF strip(line) = <<>> \/ contains_arrow(line)
            THEN rest
            ELSE <<branch_name(line)>> \o rest

----------------------------------------------------------------------------
(* re.search, for patterns made of literal characters, ^ and $; a pattern  *)
(* holding an unbalanced ( does not compile.                               *)

re_valid(pattern) == \A i \in 1..Len(pattern) : pattern[i] # "("

RECURSIVE re_match(_, _, _)
re_match(pattern, x, pos) ==
    IF pattern = <<>> THEN TRUE
    ELSE IF Head(pattern) = "^" THEN pos = 1 /\ re_match(Tail(pattern), x, pos)
    ELSE IF Head(pattern) = "$"
         THEN pos = Len(x) + 1 /\ re_match(Tail(pattern), x, pos)
    ELSE /\ pos <= Len(x)
         /\ x[pos] = Head(pattern)
         /\ re_match(Tail(pattern), x, pos + 1)

re_search(pattern, x) == \E pos \in 1..(Len(x) + 1) : re_match(pattern, x, pos)

----------------------------------------------------------------------------
(* Git.get_commits and Git.get_branches *)

get_commits_command(revision_range) ==
    LOG \o <<" ">> \o revision_range \o <<" ">> \o PRETTY_RAW

(* Faulty variant: listing the local branches only *)
get_branches_command_local == BRANCH

get_branches_command == BRANCH \o <<" ">> \o ALL

(* get_commits once run has returned or raised *)
get_commits_result(result) ==
    IF result.kind = "raise" THEN result
    ELSE extract_commits(result.value.stdout)

RECURSIVE comprehension(_, _, _)
(* [x for x in branches if re.search(pattern, x)], or with 'if not' *)
comprehension(branches, pattern, keep) ==
    IF branches = <<>> THEN <<>>
    ELSE LET x == Head(branches)
             rest == comprehension(Tail(branches), pattern, keep)
         IN IF re_search(pattern, x) = keep THEN <<x>> \o rest ELSE rest

(* Faulty variant: a pattern that does not compile matches nothing *)
search_filter_swallowing(branches, pattern, keep) ==
    IF ~re_valid(pattern) THEN Return(<<>>)
    ELSE Return(comprehension(branches, pattern, keep))

(* One filter of get_branches: re.search compiles the pattern when it is   *)
(* first called, that is for the first element of the list.                *)
search_filter(branches, pattern, keep) ==
    IF branches # <<>> /\ ~re_valid(pattern)
    THEN Raise("re.error", pattern)
    ELSE Return(comprehension(branches, pattern, keep))

(* Faulty variant: include=None keeps no name *)
filter_branches_none_is_nothing(branches, include, exclude) ==
    LET included == IF include # None
                    THEN search_filter(branches, Get(include), TRUE)
                    ELSE Return(<<>>)
    IN IF included.kind = "raise" THEN included
       ELSE IF exclude # None
            THEN search_filter(included.value, Get(exclude), FALSE)
            ELSE included

(* get_branches after the parser has returned branches *)
filter_branches(branches, include, exclude) ==
    LET included == IF include # None
                    THEN search_filter(branches, Get(include), TRUE)
                    ELSE Return(branches)
    IN IF included.kind = "raise" THEN included
       ELSE IF exclude # None
            THEN search_filter(included.value, Get(exclude), FALSE)
            ELSE included

(* Faulty variant: an operation that keeps something on the object *)
call_frame_caching ==
    /\ self' = [self EXCEPT !.git_log_parser = Some("cached")]
    /\ UNCHANGED COMMON_BINARY_PATHS

(* What run, get_commits and get_branches leave alone *)
call_frame == UNCHANGED <<COMMON_BINARY_PATHS, self>>

(* The call of run inside an operation, up to the start of the process *)
start(t, operation, command, check) ==
    /\ ctor = "constructed"
    /\ pc[t] \in {"idle", "returned"}
    /\ call' = [call EXCEPT ![t] = Some(operation)]
    /\ completed' = [completed EXCEPT ![t] = None]
    /\ parsed' = [parsed EXCEPT ![t] = None]
    /\ LET path == run_env(Deref(Get(self.binary_path_list)))
           argv == run_argv(Get(self.directory), command)
       IN IF executable_found(path)
          THEN /\ pc' = [pc EXCEPT ![t] = "running"]
               /\ proc' = [proc EXCEPT ![t] =
                              Some([argv |-> argv, path |-> path, check |-> check])]
               /\ steps' = [steps EXCEPT ![t] = <<"subprocess.run">>]
               /\ ret' = [ret EXCEPT ![t] = None]
          ELSE /\ pc' = [pc EXCEPT ![t] = "returned"]
               /\ proc' = [proc EXCEPT ![t] = None]
               /\ steps' = [steps EXCEPT ![t] = <<>>]
               /\ ret' = [ret EXCEPT ![t] = Some(Raise("FileNotFoundError", GIT))]
    /\ call_frame
    /\ UNCHANGED <<env_vars, ctor_vars, printed>>

(* The process of a call exits *)
exit(t, returncode, stdout) ==
    /\ pc[t] = "running"
    /\ pc' = [pc EXCEPT ![t] = "returned"]
    /\ proc' = [proc EXCEPT ![t] = None]
    /\ completed' = [completed EXCEPT ![t] =
                        Some([returncode |-> returncode, stdout |-> stdout])]
    /\ printed' = printed \cup run_printed(Get(proc[t]).check, returncode)
    /\ call_frame
    /\ UNCHANGED <<env_vars, ctor_vars, call>>

run_call(t, command, check) ==
    /\ ctor = "constructed"
    /\ start(t, [op |-> "run", command |-> command, check |-> check], command, check)

run_return(t, returncode, stdout) ==
    /\ exit(t, returncode, stdout)
    /\ Get(call[t]).op = "run"
    /\ LET p == Get(proc[t])
       IN ret' = [ret EXCEPT ![t] =
                     Some(run_result(p.check, p.argv, returncode, stdout))]
    /\ UNCHANGED <<parsed, steps>>

get_commits_call(t, revision_range) ==
    /\ ctor = "constructed"
    /\ start(t, [op |-> "get_commits", revision_range |-> revision_range],
             get_commits_command(revision_range), TRUE)

get_commits_return(t, returncode, stdout) ==
    /\ exit(t, returncode, stdout)
    /\ Get(call[t]).op = "get_commits"
    /\ LET p == Get(proc[t])
           result == run_result(p.check, p.argv, returncode, stdout)
       IN /\ ret' = [ret EXCEPT ![t] = Some(get_commits_result(result))]
          /\ parsed' = [parsed EXCEPT ![t] =
                           IF result.kind = "raise" THEN None
                           ELSE Some(extract_commits(result.value.stdout))]
          /\ steps' = [steps EXCEPT ![t] =
                          IF result.kind = "raise" THEN @
                          ELSE Append(@, "extract_commits")]

get_branches_call(t, include, exclude) ==
    /\ ctor = "constructed"
    /\ start(t, [op |-> "get_branches", include |-> include, exclude |-> exclude],
             get_branches_command, TRUE)

get_branches_return(t, returncode, stdout) ==
    /\ exit(t, returncode, stdout)
    /\ Get(call[t]).op = "get_branches"
    /\ LET p == Get(proc[t])
           c == Get(call[t])
           result == run_result(p.check, p.argv, returncode, stdout)
           branches == extract_branches(result.value.stdout)
           included == filter_branches(branches, c.include, None)
       IN /\ ret' = [ret EXCEPT ![t] =
                        Some(IF result.kind = "raise" THEN result
                             ELSE filter_branches(branches, c.include, c.exclude))]
          /\ parsed' = [parsed EXCEPT ![t] =
                           IF result.kind = "raise" THEN None ELSE Some(branches)]
          /\ steps' = [steps EXCEPT ![t] =
                          IF result.kind = "raise" THEN @
                          ELSE Append(@, "extract_branches")
                               \o (IF c.include # None THEN <<"include">> ELSE <<>>)
                               \o (IF c.exclude # None /\ included.kind = "return"
                                   THEN <<"exclude">> ELSE <<>>)]

----------------------------------------------------------------------------
(* Initial states *)

ExitCodes == {0, 1, 128}

RECURSIVE StringsOver(_, _)
StringsOver(chars, n) ==
    IF n = 0 THEN {<<>>}
    ELSE LET shorter == StringsOver(chars, n - 1)
         IN shorter \cup {Append(s, c) : s \in {x \in shorter : Len(x) = n - 1},
                                         c \in chars}

InitWith(directories, binary_paths, file_sets, which) ==
    /\ files \in file_sets
    /\ which_git \in which
    /\ arg_directory \in directories
    /\ arg_binary_path \in binary_paths
    /\ COMMON_BINARY_PATHS = <<BIN, USR_BIN>>
    /\ self = [binary_path_list |-> None, directory |-> None,
               git_log_parser |-> None, git_branch_parser |-> None]
    /\ ctor = "call"
    /\ raised = None
    /\ ctor_proc = None
    /\ probes = 0
    /\ probe_returncode = None
    /\ printed = {}
    /\ pc = [t \in Threads |-> "idle"]
    /\ call = [t \in Threads |-> None]
    /\ proc = [t \in Threads |-> None]
    /\ completed = [t \in Threads |-> None]
    /\ parsed = [t \in Threads |-> None]
    /\ steps = [t \in Threads |-> <<>>]
    /\ ret = [t \in Threads |-> None]

GitFiles == {BIN \o <<"/">> \o GIT, USR_BIN \o <<"/">> \o GIT, OPT \o <<"/">> \o GIT}

----------------------------------------------------------------------------
(* Construction alone, over every directory string up to MaxDirLen *)

InitDir ==
    InitWith(StringsOver({"/", "r"}, MaxDirLen), {<<>>, OPT, NODIR}, SUBSET GitFiles,
             BOOLEAN)

NextDir ==
    \/ build_binary_path_list
    \/ build_directory
    \/ \E returncode \in ExitCodes : probe_exit(returncode)

SpecDir == InitDir /\ [][NextDir]_vars

----------------------------------------------------------------------------
(* The whole life of a Git object: construction, then calls from Threads *)

(* The calls of run and get_branches made in Spec: <<command, check>> and   *)
(* <<include, exclude>>                                                     *)
RunCalls == {<<BRANCH \o <<" ">> \o DASH_V, TRUE>>, <<PUSH, TRUE>>, <<PUSH, FALSE>>}
LogOutputs == {<<>>, <<"ok">>, <<"ok", "ok">>, <<"ok", "malformed">>}


M == <<"m">>
F_A == <<"f", "/", "a">>
F_B == <<"f", "/", "b">>
BranchLines ==
    {<<"*", " ">> \o M, <<" ", " ">> \o F_A, <<" ", " ">> \o F_B,
     <<" ", " ", "r", " ", "-", ">", " ">> \o M}

INCLUDE_F == <<"^", "f", "/">>
EXCLUDE_B == <<"b", "$">>
INVALID == <<"(">>
BranchCalls ==
    {<<None, None>>, <<Some(INCLUDE_F), None>>, <<Some(INCLUDE_F), Some(INVALID)>>}

Patterns == {<<>>, INCLUDE_F, EXCLUDE_B, <<"^", "m", "$">>, <<"a", "^">>, INVALID}

(* What a process may have written to its standard output when it exits:   *)
(* one of outputs on success, nothing on failure.                          *)
StdoutOf(returncode, outputs) == IF returncode = 0 THEN outputs ELSE {<<>>}

Init ==
    InitWith({<<"/", "r", "/">>}, {<<>>, OPT}, {{}, {BIN \o <<"/">> \o GIT}}, BOOLEAN)

Next ==
    \/ build_binary_path_list
    \/ build_directory
    \/ \E returncode \in {0, 128} : probe_exit(returncode)
    \/ \E t \in Threads, c \in RunCalls : run_call(t, c[1], c[2])
    \/ \E t \in Threads, returncode \in {0, 128} :
           run_return(t, returncode, "output")
    \/ \E t \in Threads, revision_range \in {<<>>, <<"a", " ", "b">>} :
           get_commits_call(t, revision_range)
    \/ \E t \in Threads, returncode \in {0, 128} :
           \E stdout \in StdoutOf(returncode, {<<"ok">>, <<"malformed">>}) :
               get_commits_return(t, returncode, stdout)
    \/ \E t \in Threads, c \in BranchCalls : get_branches_call(t, c[1], c[2])
    \/ \E t \in Threads, returncode \in {0, 128} :
           \E stdout \in StdoutOf(returncode, {<<<<"*", " ">> \o M, <<" ", " ">> \o F_B>>}) :
               get_branches_return(t, returncode, stdout)

Spec == Init /\ [][Next]_vars

----------------------------------------------------------------------------
(* get_commits alone, over every revision range up to MaxRangeLen *)

InitCommits ==
    InitWith({SLASH, <<"/", "r", "/">>}, {<<>>}, {{BIN \o <<"/">> \o GIT}}, {FALSE})

NextCommits ==
    \/ build_binary_path_list
    \/ build_directory
    \/ \E returncode \in ExitCodes : probe_exit(returncode)
    \/ \E revision_range \in StringsOver({"a", " ", "\t"}, MaxRangeLen) :
           get_commits_call(1, revision_range)
    \/ \E returncode \in ExitCodes :
           \E stdout \in StdoutOf(returncode, LogOutputs) :
               get_commits_return(1, returncode, stdout)

SpecCommits == InitCommits /\ [][NextCommits]_vars

----------------------------------------------------------------------------
(* get_branches alone, over every listing of up to MaxLines lines *)

RECURSIVE SeqsOver(_, _)
SeqsOver(S, n) ==
    IF n = 0 THEN {<<>>}
    ELSE LET shorter == SeqsOver(S, n - 1)
         IN shorter \cup {Append(s, x) : s \in {y \in shorter : Len(y) = n - 1},
                                         x \in S}

OptionalPatterns == {None} \cup {Some(p) : p \in Patterns}

InitBranches ==
    InitWith({<<"/", "r", "/">>}, {<<>>}, {{BIN \o <<"/">> \o GIT}}, {FALSE})

NextBranches ==
    \/ build_binary_path_list
    \/ build_directory
    \/ \E returncode \in ExitCodes : probe_exit(returncode)
    \/ \E include \in OptionalPatterns, exclude \in OptionalPatterns :
           get_branches_call(1, include, exclude)
    \/ \E returncode \in ExitCodes :
           \E stdout \in StdoutOf(returncode, SeqsOver(BranchLines, MaxLines)) :
               get_branches_return(1, returncode, stdout)

SpecBranches == InitBranches /\ [][NextBranches]_vars

----------------------------------------------------------------------------
(* Properties *)

Returned(t, op) ==
    /\ pc[t] = "returned"
    /\ call[t] # None
    /\ Get(call[t]).op = op
    /\ completed[t] # None

Raised(t, type) ==
    /\ ret[t] # None
    /\ Get(ret[t]).kind = "raise"
    /\ Get(ret[t]).type = type

Returns(t, value) ==
    /\ ret[t] # None
    /\ Get(ret[t]).kind = "return"
    /\ Get(ret[t]).value = value

Count(seq, x) == Cardinality({i \in 1..Len(seq) : seq[i] = x})

(* The elements of seq at the indices in I, in the order of seq *)
SubSeqAt(seq, I) ==
    [j \in 1..Cardinality(I) |->
        seq[CHOOSE i \in I : Cardinality({k \in I : k < i}) = j - 1]]

OptValid(pattern) == pattern = None \/ re_valid(Get(pattern))

(* The indices of the names that include lets in and exclude does not drop *)
Kept(names, include, exclude) ==
    {i \in 1..Len(names) :
        /\ include = None \/ re_search(Get(include), names[i])
        /\ exclude = None \/ ~re_search(Get(exclude), names[i])}

(* C1: whenever get_branches returns after a successful command, with       *)
(* include and exclude each absent or a pattern that compiles, it returns   *)
(* exactly the parsed names that include matches somewhere (or include is   *)
(* absent) and exclude matches nowhere (or exclude is absent), in the       *)
(* parser's order with duplicates kept, the inclusion filter having run     *)
(* before the exclusion filter.                                             *)
C1_GetBranchesFilters ==
    \A t \in Threads :
        (/\ Returned(t, "get_branches")
         /\ Get(completed[t]).returncode = 0
         /\ OptValid(Get(call[t]).include)
         /\ OptValid(Get(call[t]).exclude))
        => LET c == Get(call[t])
               names == Get(parsed[t])
           IN /\ parsed[t] # None
              /\ Returns(t, SubSeqAt(names, Kept(names, c.include, c.exclude)))
              /\ steps[t] = <<"subprocess.run", "extract_branches">>
                            \o (IF c.include # None THEN <<"include">> ELSE <<>>)
                            \o (IF c.exclude # None THEN <<"exclude">> ELSE <<>>)

C1_Witness ==
    /\ Returned(1, "get_branches")
    /\ Get(call[1]).include = Some(INCLUDE_F)
    /\ Get(call[1]).exclude = Some(EXCLUDE_B)
    /\ parsed[1] = Some(<<M, F_A, F_B>>)
    /\ Returns(1, <<F_A>>)

(* The maximal runs of non-whitespace characters of s, in order *)
RECURSIVE Tokens(_)
Tokens(s) ==
    IF s = <<>> THEN <<>>
    ELSE IF Head(s) \in Whitespace THEN Tokens(Tail(s))
    ELSE LET ends == {n \in 1..Len(s) :
                         /\ \A i \in 1..n : s[i] \notin Whitespace
                         /\ n = Len(s) \/ s[n + 1] \in Whitespace}
             n == CHOOSE n \in ends : TRUE
         IN <<SubSeq(s, 1, n)>> \o Tokens(SubSeq(s, n + 1, Len(s)))

(* C2: get_commits executes one command, whose token list is git, -C, the   *)
(* stored directory, log, the whitespace-separated tokens of revision_range *)
(* and --pretty=raw, with no empty token (so for revision_range '' it is    *)
(* git -C <directory> log --pretty=raw), and on success it returns what the *)
(* log parser makes of that command's standard output.                      *)
C2_GetCommitsCommand ==
    \A t \in Threads :
        (call[t] # None /\ Get(call[t]).op = "get_commits")
        => LET revision_range == Get(call[t]).revision_range
               expected == <<GIT, DASH_C, Get(self.directory), LOG>>
                           \o Tokens(revision_range) \o <<PRETTY_RAW>>
           IN /\ pc[t] = "running"
                 => /\ Get(proc[t]).argv = expected
                    /\ \A i \in 1..Len(Get(proc[t]).argv) : Get(proc[t]).argv[i] # <<>>
                    /\ revision_range = <<>>
                       => Get(proc[t]).argv =
                              <<GIT, DASH_C, Get(self.directory), LOG, PRETTY_RAW>>
              /\ Count(steps[t], "subprocess.run") = 1
              /\ (Returned(t, "get_commits") /\ Get(completed[t]).returncode = 0)
                 => /\ ret[t] = Some(extract_commits(Get(completed[t]).stdout))
                    /\ steps[t] = <<"subprocess.run", "extract_commits">>

C2_Witness ==
    /\ Returned(1, "get_commits")
    /\ Get(call[1]).revision_range = <<>>
    /\ Get(completed[1]).stdout = <<"ok", "ok">>
    /\ Returns(1, extract_commits(<<"ok", "ok">>).value)

(* C3: when the command of get_commits or get_branches exits with a         *)
(* non-zero code, the call ends with run's CalledProcessError carrying the  *)
(* captured stderr, after executing the command once and applying neither   *)
(* the parser nor a filter.                                                 *)
C3_FailurePropagates ==
    \A t \in Threads :
        (/\ Returned(t, "get_commits") \/ Returned(t, "get_branches")
         /\ Get(completed[t]).returncode # 0)
        => /\ Raised(t, "CalledProcessError")
           /\ Get(ret[t]).arg = Stderr(Get(completed[t]).returncode)
           /\ steps[t] = <<"subprocess.run">>
           /\ parsed[t] = None

C3_Witness ==
    /\ Returned(1, "get_branches")
    /\ Get(completed[1]).returncode = 128
    /\ Raised(1, "CalledProcessError")
    /\ Returned(2, "get_commits")
    /\ Get(completed[2]).returncode = 128

(* C4 as stated: whatever the listing, get_branches called with an include  *)
(* or exclude that does not compile ends in re.error.                       *)
C4_InvalidPatternAlwaysRaises ==
    \A t \in Threads :
        (/\ Returned(t, "get_branches")
         /\ Get(completed[t]).returncode = 0
         /\ ~OptValid(Get(call[t]).include) \/ ~OptValid(Get(call[t]).exclude))
        => Raised(t, "re.error")

(* C4 as amended: an include that does not compile ends the call in         *)
(* re.error (not a parser's error nor run's) when the parser returned at    *)
(* least one name; an exclude that does not compile, include being absent   *)
(* or compiling, does when at least one name passes the inclusion filter;   *)
(* a filter that no name reaches never raises, and the call returns [].     *)
C4_InvalidPatternRaisesWhenReached ==
    \A t \in Threads :
        (Returned(t, "get_branches") /\ Get(completed[t]).returncode = 0)
        => LET c == Get(call[t])
               names == Get(parsed[t])
               included == SubSeqAt(names, Kept(names, c.include, None))
           IN /\ ~OptValid(c.include)
                 => IF names # <<>>
                    THEN Raised(t, "re.error") /\ Get(ret[t]).arg = Get(c.include)
                    ELSE Returns(t, <<>>)
              /\ (OptValid(c.include) /\ ~OptValid(c.exclude))
                 => IF included # <<>>
                    THEN Raised(t, "re.error") /\ Get(ret[t]).arg = Get(c.exclude)
                    ELSE Returns(t, <<>>)

C4_Witness ==
    /\ Returned(1, "get_branches")
    /\ Get(call[1]).include = Some(INCLUDE_F)
    /\ Get(call[1]).exclude = Some(INVALID)
    /\ parsed[1] = Some(<<M, F_A>>)
    /\ Raised(1, "re.error")

(* What an operation gives back, from its own arguments and its own process *)
ResultOf(c, p, done) ==
    LET result == run_result(p.check, p.argv, done.returncode, done.stdout)
    IN IF c.op = "run" \/ result.kind = "raise" THEN result
       ELSE IF c.op = "get_commits" THEN extract_commits(done.stdout)
       ELSE filter_branches(extract_branches(done.stdout), c.include, c.exclude)

(* C5: once the object is constructed, no step of run, get_commits or       *)
(* get_branches, of any thread, changes the object's attributes or the      *)
(* class-level list; every call that returns has executed its own command   *)
(* once, and what it gives back is determined by its own arguments and its  *)
(* own process's exit code and output.                                      *)
C5_CallsLeaveObjectAlone ==
    [][ctor = "constructed"
       => /\ self' = self
          /\ COMMON_BINARY_PATHS' = COMMON_BINARY_PATHS
          /\ ctor' = ctor
          /\ \A t \in Threads :
                (pc[t] = "running" /\ pc'[t] = "returned")
                => /\ Count(steps'[t], "subprocess.run") = 1
                   /\ ret'[t] = Some(ResultOf(Get(call[t]), Get(proc[t]),
                                              Get(completed'[t])))]_vars

C5_Witness ==
    /\ Returned(1, "get_commits")
    /\ Returned(2, "get_commits")
    /\ call[1] = call[2]
    /\ Get(ret[1]).kind = "return"
    /\ Get(ret[2]).kind = "raise"

ProcessesInFlight ==
    {Get(ctor_proc).argv : x \in {y \in {1} : ctor_proc # None}}
    \cup {Get(proc[t]).argv : t \in {u \in Threads : proc[u] # None}}

(* git -C <directory> followed by one of the three read-only commands *)
ReadOnly(argv) ==
    /\ Len(argv) >= 5
    /\ SubSeq(argv, 1, 2) = <<GIT, DASH_C>>
    /\ \/ SubSeq(argv, 4, Len(argv)) = <<REV_PARSE, GIT_DIR>>
       \/ SubSeq(argv, 4, Len(argv)) = <<BRANCH, ALL>>
       \/ argv[4] = LOG /\ argv[Len(argv)] = PRETTY_RAW

(* C6 as stated: every command executed through the object is one of the    *)
(* three read-only commands.                                                *)
C6_EveryCommandReadOnly == \A argv \in ProcessesInFlight : ReadOnly(argv)

(* C6 as amended: every command executed by the constructor, get_commits    *)
(* and get_branches is one of the three read-only commands; run executes    *)
(* whatever command its caller gives it.                                    *)
C6_OwnCommandsReadOnly ==
    /\ ctor_proc # None => ReadOnly(Get(ctor_proc).argv)
    /\ \A t \in Threads :
          (proc[t] # None /\ Get(call[t]).op # "run") => ReadOnly(Get(proc[t]).argv)

C6_Witness ==
    /\ proc[1] # None /\ Get(call[1]).op = "get_branches"
    /\ proc[2] # None /\ Get(call[2]).op = "get_commits"

(* The binary path list construction is meant to search *)
IntendedPathList ==
    (IF arg_binary_path # <<>> THEN <<arg_binary_path>> ELSE <<>>) \o <<BIN, USR_BIN>>

GitInPathList ==
    \E i \in 1..Len(IntendedPathList) :
        isfile(rstrip(IntendedPathList[i], "/") \o <<"/">> \o GIT)

(* _build_binary_path_list ended with an exception *)
DiscoveryRaised == ctor = "raised" /\ probes = 0 /\ Get(raised).type # "FileNotFoundError"

(* C7: for a binary_path that is empty or a directory, binary discovery     *)
(* ends in one of three ways: git is in a directory of the binary path      *)
(* list, and nothing is printed or raised; or it is not but the ambient     *)
(* environment finds it, and the warning is printed and nothing raised; or  *)
(* GitBinaryNotFoundError is raised and no command is ever executed.        *)
C7_DiscoveryOutcomes ==
    (ctor # "call" /\ (arg_binary_path = <<>> \/ isdir(arg_binary_path)))
    => IF GitInPathList THEN WARNING \notin printed /\ ~DiscoveryRaised
       ELSE IF which_git THEN WARNING \in printed /\ ~DiscoveryRaised
       ELSE /\ ctor = "raised"
            /\ Get(raised).type = "GitBinaryNotFoundError"
            /\ probes = 0
            /\ \A t \in Threads : proc[t] = None /\ pc[t] = "idle"

(* C8: a non-empty binary_path that is a directory becomes the first entry  *)
(* of the object's binary path list, ahead of /bin and /usr/bin, the        *)
(* class-level list staying as it was; one that is not a directory raises   *)
(* NotADirectoryError.                                                      *)
C8_BinaryPathFirst ==
    (ctor # "call" /\ arg_binary_path # <<>>)
    => IF isdir(arg_binary_path)
       THEN \/ ctor = "raised" /\ Get(raised).type = "GitBinaryNotFoundError"
            \/ /\ ~DiscoveryRaised
               /\ self.binary_path_list # None
               /\ Head(Deref(Get(self.binary_path_list))) = arg_binary_path
       ELSE ctor = "raised" /\ Get(raised).type = "NotADirectoryError"

(* C9: the probe is rev-parse --git-dir run with check disabled; a non-zero *)
(* exit makes the constructor raise NotARepositoryError naming the          *)
(* directory, a zero exit makes it raise nothing; and an object on which an *)
(* operation was called has passed exactly one probe.                       *)
C9_ProbeDecidesConstruction ==
    /\ ctor_proc # None
       => /\ ~Get(ctor_proc).check
          /\ Get(ctor_proc).argv =
                 <<GIT, DASH_C, Get(self.directory), REV_PARSE, GIT_DIR>>
    /\ (probe_returncode # None /\ Get(probe_returncode) # 0)
       => /\ ctor = "raised"
          /\ Get(raised).type = "NotARepositoryError"
          /\ Get(raised).arg = Get(self.directory)
    /\ probe_returncode = Some(0) => ctor = "constructed" /\ raised = None
    /\ ctor = "constructed" => probe_returncode = Some(0)
    /\ \A t \in Threads :
          pc[t] # "idle" => probes = 1 /\ probe_returncode = Some(0)

C9_Witness ==
    /\ ctor = "raised"
    /\ Get(raised).type = "NotARepositoryError"
    /\ probe_returncode = Some(128)
    /\ probes = 1

(* C10: for a non-empty directory argument, the directory that is stored   *)
(* and given to the probe after -C is '/' or a non-empty string that does   *)
(* not end in '/', and normalising it again leaves it unchanged.            *)
C10_DirectoryNormalised ==
    (ctor_proc # None /\ arg_directory # <<>>)
    => LET directory == Get(self.directory)
       IN /\ Get(ctor_proc).argv[3] = directory
          /\ \/ directory = SLASH
             \/ directory # <<>> /\ directory[Len(directory)] # "/"
          /\ normalise_directory(directory) = directory

====
